---- MODULE Spec2Model ----
(***************************************************************************)
(* Model of the endpoint-discovery engine of package parserimport          *)
(* (src/registration/registration.go, lines 67-419):                       *)
(* DetectFrameworkAndEndpoints = parse, detectFramework, parseForEndpoints *)
(* and the five adapters parseGinEndpoints .. parseFiberEndpoints; of the   *)
(* per-route counters and the telemetry connection of package              *)
(* instrumentation (src/unnamed/part_000); and of the retry loop of        *)
(* package registration (src/registration/registration.go, lines 1-65).    *)
(*                                                                         *)
(* Go strings that the code inspects rune by rune (member names, literal   *)
(* values, handler texts) are sequences of runes; a rune is a one-letter   *)
(* string, or its code point: "U+0130" is LATIN CAPITAL LETTER I WITH DOT  *)
(* ABOVE, a legal letter of a Go identifier, "U+0060" the back quote.      *)
(* Import paths and framework names are only compared for equality and     *)
(* stay TLA+ strings.                                                      *)
(***************************************************************************)
EXTENDS Integers, Sequences, FiniteSets, TLC

(* ------------------------------ bounds -------------------------------- *)
MaxImports == 2   \* import declarations per file (detection family)
MaxCalls   == 3   \* chained calls per file body (structure family)

(* ------------------------------ strings ------------------------------- *)
Upper == <<"A","B","C","D","E","F","G","H","I","J","K","L","M",
           "N","O","P","Q","R","S","T","U","V","W","X","Y","Z">>
Lower == <<"a","b","c","d","e","f","g","h","i","j","k","l","m",
           "n","o","p","q","r","s","t","u","v","w","x","y","z">>

\* unicode.ToLower: A-Z to a-z, and U+0130 to 'i' (CaseRanges delta -199)
ToLowerRune(c) ==
    IF \E i \in 1..26 : Upper[i] = c
    THEN Lower[CHOOSE i \in 1..26 : Upper[i] = c]
    ELSE IF c = "U+0130" THEN "i" ELSE c

\* unicode.ToUpper: a-z to A-Z; U+0130 is already upper case
ToUpperRune(c) ==
    IF \E i \in 1..26 : Lower[i] = c
    THEN Upper[CHOOSE i \in 1..26 : Lower[i] = c]
    ELSE c

\* strings.ToLower / strings.ToUpper map the string rune by rune
ToLower(s) == [i \in 1..Len(s) |-> ToLowerRune(s[i])]
ToUpper(s) == [i \in 1..Len(s) |-> ToUpperRune(s[i])]

RECURSIVE TrimLeft(_, _)
TrimLeft(s, cut) ==
    IF s # <<>> /\ Head(s) = cut THEN TrimLeft(Tail(s), cut) ELSE s

RECURSIVE TrimRight(_, _)
TrimRight(s, cut) ==
    IF s # <<>> /\ s[Len(s)] = cut
    THEN TrimRight(SubSeq(s, 1, Len(s) - 1), cut) ELSE s

\* strings.Trim(s, cutset) with a one-rune cutset
Trim(s, cut) == TrimRight(TrimLeft(s, cut), cut)

(* ------------------------- the syntax tree ---------------------------- *)
Ident(name)        == [kind |-> "Ident", Name |-> name]
BasicLit(k, v)     == [kind |-> "BasicLit", Kind |-> k, Value |-> v]
SelectorExpr(x, s) == [kind |-> "SelectorExpr", X |-> x, Sel |-> Ident(s)]
BinaryExpr(x, y)   == [kind |-> "BinaryExpr", X |-> x, Y |-> y]
FuncLit            == [kind |-> "FuncLit"]
CallExpr(f, a)     == [kind |-> "CallExpr", Fun |-> f, Args |-> a]
ImportSpec(v)      == [kind |-> "ImportSpec", Path |-> [Value |-> v]]
FuncDecl           == [kind |-> "FuncDecl"]

\* children of a node in the order ast.Walk visits them, each with its path
Children(n, p) ==
    CASE n.kind = "CallExpr" ->
           <<[n |-> n.Fun, p |-> p \o <<0>>]>> \o
           [j \in 1..Len(n.Args) |-> [n |-> n.Args[j], p |-> p \o <<j>>]]
      [] n.kind = "SelectorExpr" ->
           <<[n |-> n.X, p |-> p \o <<0>>], [n |-> n.Sel, p |-> p \o <<1>>]>>
      [] n.kind = "BinaryExpr" ->
           <<[n |-> n.X, p |-> p \o <<0>>], [n |-> n.Y, p |-> p \o <<1>>]>>
      [] OTHER -> <<>>

(* ----------------------- the signature registry ------------------------ *)
frameworkSignatures ==
    ("github.com/gin-gonic/gin"    :> "Gin")        @@
    ("github.com/labstack/echo/v4" :> "Echo")       @@
    ("github.com/gorilla/mux"      :> "GorillaMux") @@
    ("net/http"                    :> "net/http")   @@
    ("github.com/gofiber/fiber/v2" :> "Fiber")

\* the text of an import path as the parser keeps it: the quoted literal
Quoted(sig) == "\"" \o sig \o "\""

(* -------------------------- detectFramework --------------------------- *)
\* the callback handed to ast.Inspect: the new values of detectedFramework
\* and isNetHttpDetected, and the callback's result (descend into n or not)
DetectCallbackPreempt(n, df, nh) ==
    IF n.kind # "ImportSpec" THEN [df |-> df, nh |-> nh, descend |-> TRUE]
    ELSE LET m == {sig \in DOMAIN frameworkSignatures :
                       n.Path.Value = Quoted(sig)}
         IN  IF m = {} THEN [df |-> df, nh |-> nh, descend |-> TRUE]
             ELSE [df |-> frameworkSignatures[CHOOSE sig \in m : TRUE],
                   nh |-> nh, descend |-> FALSE]

DetectCallback(n, df, nh) ==
    IF n.kind # "ImportSpec" THEN [df |-> df, nh |-> nh, descend |-> TRUE]
    ELSE LET m == {sig \in DOMAIN frameworkSignatures :
                       n.Path.Value = Quoted(sig)}
         IN  IF m = {} THEN [df |-> df, nh |-> nh, descend |-> TRUE]
             ELSE LET framework == frameworkSignatures[CHOOSE sig \in m : TRUE]
                  IN  IF framework = "net/http"
                      THEN [df |-> df, nh |-> TRUE, descend |-> TRUE]
                      ELSE [df |-> framework, nh |-> nh, descend |-> FALSE]

(* ---------------------------- the adapters ---------------------------- *)
Quote     == "\""
Backquote == "U+0060"    \* the delimiter of a raw string literal

\* fmt.Sprintf("%s", x) of an ast.Expr: *ast.Ident is a Stringer and prints
\* its name; a pointer to any other node prints as &{field field ...}
RECURSIVE FmtS(_)
FmtS(x) ==
    CASE x.kind = "Ident"        -> x.Name
      [] x.kind = "SelectorExpr" ->
           <<"&", "{">> \o FmtS(x.X) \o <<" ">> \o FmtS(x.Sel) \o <<"}">>

\* "Get pattern": the literal's text with the double quotes trimmed, or ""
PatternOf(arg) ==
    IF arg.kind = "BasicLit" /\ arg.Kind = "STRING"
    THEN Trim(arg.Value, Quote) ELSE <<>>

\* "Get handler": an identifier's name, or X.Sel of a selector expression
HandlerOf(arg) ==
    IF arg.kind = "Ident" THEN arg.Name
    ELSE IF arg.kind = "SelectorExpr"
         THEN FmtS(arg.X) \o <<".">> \o arg.Sel.Name
         ELSE <<>>

Endpoint(m, p, h) == [Method |-> m, Pattern |-> p, Handler |-> h]

GinVerbs == { <<"G","E","T">>, <<"P","O","S","T">>, <<"P","U","T">>,
              <<"D","E","L","E","T","E">>, <<"P","A","T","C","H">>,
              <<"O","P","T","I","O","N","S">> }
FiberVerbs == { <<"g","e","t">>, <<"p","o","s","t">>, <<"p","u","t">>,
                <<"d","e","l","e","t","e">>, <<"p","a","t","c","h">>,
                <<"o","p","t","i","o","n","s">> }
HandleFuncName == <<"H","a","n","d","l","e","F","u","n","c">>
HandleName     == <<"H","a","n","d","l","e">>
CUSTOM == <<"C","U","S","T","O","M">>
ALL    == <<"A","L","L">>

isGinHTTPMethodAnyCase(methodName) == ToUpper(methodName) \in GinVerbs
isGinHTTPMethod(methodName)        == methodName \in GinVerbs
isEchoHTTPMethod(methodName)       == methodName \in GinVerbs
isFiberHTTPMethod(methodName)      == ToLower(methodName) \in FiberVerbs

\* the endpoints one callback invocation appends (none or one)
GinCallbackArityOne(n) ==
    IF /\ n.kind = "CallExpr"
       /\ n.Fun.kind = "SelectorExpr"
       /\ isGinHTTPMethod(n.Fun.Sel.Name)
       /\ Len(n.Args) >= 1
    THEN LET pattern == PatternOf(n.Args[1])
             handler == IF Len(n.Args) >= 2 THEN HandlerOf(n.Args[2]) ELSE <<>>
         IN  IF pattern # <<>>
             THEN <<Endpoint(n.Fun.Sel.Name, pattern, handler)>> ELSE <<>>
    ELSE <<>>

GinCallback(n) ==
    IF /\ n.kind = "CallExpr"
       /\ n.Fun.kind = "SelectorExpr"
       /\ isGinHTTPMethod(n.Fun.Sel.Name)
       /\ Len(n.Args) >= 2
    THEN LET pattern == PatternOf(n.Args[1])
             handler == HandlerOf(n.Args[2])
         IN  IF pattern # <<>> /\ handler # <<>>
             THEN <<Endpoint(n.Fun.Sel.Name, pattern, handler)>> ELSE <<>>
    ELSE <<>>

EchoCallback(n) ==
    IF /\ n.kind = "CallExpr"
       /\ n.Fun.kind = "SelectorExpr"
       /\ isEchoHTTPMethod(n.Fun.Sel.Name)
       /\ Len(n.Args) >= 2
    THEN LET pattern == PatternOf(n.Args[1])
             handler == HandlerOf(n.Args[2])
         IN  IF pattern # <<>> /\ handler # <<>>
             THEN <<Endpoint(n.Fun.Sel.Name, pattern, handler)>> ELSE <<>>
    ELSE <<>>

GorillaMuxCallback(n) ==
    IF /\ n.kind = "CallExpr"
       /\ n.Fun.kind = "SelectorExpr"
       /\ n.Fun.Sel.Name = HandleFuncName
       /\ Len(n.Args) >= 2
    THEN LET pattern == PatternOf(n.Args[1])
             handler == HandlerOf(n.Args[2])
         IN  IF pattern # <<>> /\ handler # <<>>
             THEN <<Endpoint(CUSTOM, pattern, handler)>> ELSE <<>>
    ELSE <<>>

NetHttpMethodSwapped(name) == IF name = HandleName THEN ALL ELSE CUSTOM
NetHttpMethod(name)        == IF name = HandleName THEN CUSTOM ELSE ALL

NetHttpCallback(n) ==
    IF /\ n.kind = "CallExpr"
       /\ n.Fun.kind = "SelectorExpr"
       /\ (n.Fun.Sel.Name = HandleFuncName \/ n.Fun.Sel.Name = HandleName)
       /\ Len(n.Args) >= 2
    THEN LET pattern == PatternOf(n.Args[1])
             handler == HandlerOf(n.Args[2])
         IN  IF pattern # <<>> /\ handler # <<>>
             THEN <<Endpoint(NetHttpMethod(n.Fun.Sel.Name), pattern, handler)>>
             ELSE <<>>
    ELSE <<>>

FiberCallback(n) ==
    IF /\ n.kind = "CallExpr"
       /\ n.Fun.kind = "SelectorExpr"
       /\ isFiberHTTPMethod(n.Fun.Sel.Name)
       /\ Len(n.Args) >= 2
    THEN LET pattern == PatternOf(n.Args[1])
             handler == HandlerOf(n.Args[2])
         IN  IF pattern # <<>> /\ handler # <<>>
             THEN <<Endpoint(ToUpper(n.Fun.Sel.Name), pattern, handler)>>
             ELSE <<>>
    ELSE <<>>

(* ----------------------------- the inputs ----------------------------- *)
\* sequences of length at most n over S
SeqsUpTo(S, n) == UNION {[1..k -> S] : k \in 0..n}

GET        == <<"G","E","T">>
GetName    == <<"G","e","t">>
getName    == <<"g","e","t">>
OPTdotIONS == <<"O","P","T","U+0130","O","N","S">>   \* OPT, U+0130, ONS
UseName    == <<"U","s","e">>
Names == {GET, GetName, getName, OPTdotIONS, HandleFuncName, HandleName, UseName}

LitA     == BasicLit("STRING", <<Quote, "/", "a", Quote>>)   \* "/a"
LitB     == BasicLit("STRING", <<Quote, "/", "b", Quote>>)   \* "/b"
LitEmpty == BasicLit("STRING", <<Quote, Quote>>)             \* ""
RawA     == BasicLit("STRING", <<Backquote, "/", "a", Backquote>>)  \* raw /a
IntLit   == BasicLit("INT", <<"1">>)                         \* 1
IdentP   == Ident(<<"p">>)                                   \* p
ConcatP  == BinaryExpr(LitA, IdentP)                         \* "/a" + p
CallP    == CallExpr(Ident(<<"f">>), <<>>)                   \* f()
PatternArgs == {LitA, LitEmpty, RawA, IntLit, IdentP, ConcatP, CallP}
StringLits  == {LitA, LitB, LitEmpty, RawA}

IdentH   == Ident(<<"h">>)                                        \* h
Sel2H    == SelectorExpr(Ident(<<"s">>), <<"m">>)                 \* s.m
ChainH   == SelectorExpr(SelectorExpr(Ident(<<"a">>), <<"b">>), <<"c">>) \* a.b.c
CallH    == CallExpr(Ident(<<"w">>), <<IdentH>>)                  \* w(h)
HandlerArgs == {IdentH, Sel2H, ChainH, FuncLit, CallH}

ArgLists ==
    {<<>>} \cup {<<a>> : a \in PatternArgs} \cup
    {<<a, b>> : a \in PatternArgs, b \in HandlerArgs} \cup
    {<<LitA, IdentH, IdentH>>}

Recv == Ident(<<"r">>)

\* one call: r.Name(args), or the free-standing Name(args)
LeafCalls ==
    {CallExpr(SelectorExpr(Recv, nm), a) : nm \in Names, a \in ArgLists} \cup
    {CallExpr(Ident(nm), <<LitA, IdentH>>) : nm \in Names}

\* the links of a chain: .GET("/a", h), .HandleFunc("/a", h), and
\* .GET("/a", h, r.HandleFunc("/b", h)) with a call among its arguments
Links ==
    { [Sel |-> GET,            Args |-> <<LitA, IdentH>>],
      [Sel |-> HandleFuncName, Args |-> <<LitA, IdentH>>],
      [Sel |-> GET,            Args |-> <<LitA, IdentH,
           CallExpr(SelectorExpr(Recv, HandleFuncName), <<LitB, IdentH>>)>>] }

\* r.l1(..).l2(..)...: the call of the last link is the outermost node
RECURSIVE ChainExpr(_)
ChainExpr(ls) ==
    IF ls = <<>> THEN Recv
    ELSE CallExpr(SelectorExpr(ChainExpr(SubSeq(ls, 1, Len(ls) - 1)),
                               ls[Len(ls)].Sel),
                  ls[Len(ls)].Args)

\* the statements made of the links ls when a statement ends after each
\* position in cuts (and after the last link)
RECURSIVE SplitAt(_, _)
SplitAt(ls, cuts) ==
    IF ls = <<>> THEN <<>>
    ELSE LET k == IF cuts = {} THEN Len(ls)
                  ELSE CHOOSE c \in cuts : \A d \in cuts : c <= d
         IN  <<ChainExpr(SubSeq(ls, 1, k))>> \o
             SplitAt(SubSeq(ls, k + 1, Len(ls)), {c - k : c \in cuts \ {k}})

\* every arrangement of at most MaxCalls links into statements and chains
Bodies ==
    UNION { {SplitAt(ls, cuts) : cuts \in SUBSET (1..(Len(ls) - 1))} :
            ls \in SeqsUpTo(Links, MaxCalls) }

ImportValues ==
    {Quoted(sig) : sig \in DOMAIN frameworkSignatures} \cup
    {Quoted("fmt"), Quoted("github.com/gofiber/fiber")}

File(perr, imps, body) ==
    [ParseErr |-> perr, Imports |-> imps, Body |-> body]

OneImport == {<<ImportSpec(Quoted(sig))>> : sig \in DOMAIN frameworkSignatures}

\* every shape of a single call, under each framework
ShapeFiles == {File(FALSE, i, <<c>>) : i \in OneImport, c \in LeafCalls}

\* statements and chained / nested calls, under each framework
StructureFiles ==
    {File(FALSE, i, b) : i \in OneImport, b \in Bodies}

\* every import list, parseable or not, over a body of registration calls
DetectBodies ==
    { <<>>,
      <<CallExpr(SelectorExpr(Recv, GET), <<LitA>>),
        CallExpr(SelectorExpr(Recv, GET), <<LitA, IdentH>>),
        CallExpr(SelectorExpr(Recv, HandleFuncName), <<IdentP>>),
        CallExpr(SelectorExpr(Recv, HandleFuncName), <<LitB, IdentH>>),
        CallExpr(SelectorExpr(Recv, HandleName), <<LitB, Sel2H>>)>> }

DetectFiles ==
    {File(e, [k \in 1..Len(v) |-> ImportSpec(v[k])], b) :
        e \in BOOLEAN, v \in SeqsUpTo(ImportValues, MaxImports),
        b \in DetectBodies}

Files == ShapeFiles \cup StructureFiles \cup DetectFiles

(* ------------------------- the state machine -------------------------- *)
VARIABLES
    file,               \* the source file handed to DetectFrameworkAndEndpoints
    pc,                 \* "parse", "detect", "resolve", "extract", "done"
    detectedFramework,  \* detectFramework's / the caller's variable
    isNetHttpDetected,
    todo,               \* nodes ast.Inspect has still to visit, with paths
    adapter,            \* the adapter parseForEndpoints selected, "" if none
    endpoints,          \* the adapter's result so far
    emitted,            \* paths of the calls that produced the endpoints
    result              \* what DetectFrameworkAndEndpoints returned

vars == <<file, pc, detectedFramework, isNetHttpDetected, todo, adapter,
          endpoints, emitted, result>>

NoResult == [framework |-> "", endpoints |-> <<>>, err |-> ""]

Init ==
    /\ file \in Files
    /\ pc = "parse"
    /\ detectedFramework = ""
    /\ isNetHttpDetected = FALSE
    /\ todo = <<>>
    /\ adapter = ""
    /\ endpoints = <<>>
    /\ emitted = <<>>
    /\ result = NoResult

\* the top-level nodes of the file in source order
BodyNodes(f) == [i \in 1..Len(f.Body) |-> [n |-> f.Body[i], p |-> <<i>>]]
DeclNodes(f) ==
    [i \in 1..Len(f.Imports) |-> [n |-> f.Imports[i], p |-> <<i>>]] \o
    <<[n |-> FuncDecl, p |-> <<0>>]>>

\* parser.ParseFile, and the return of its error
ParseFile ==
    /\ pc = "parse"
    /\ IF file.ParseErr
       THEN /\ result' = [framework |-> "", endpoints |-> <<>>,
                          err |-> "parse error"]
            /\ pc' = "done"
            /\ todo' = <<>>
       ELSE /\ pc' = "detect"
            /\ todo' = DeclNodes(file)
            /\ result' = result
    /\ UNCHANGED <<file, detectedFramework, isNetHttpDetected, adapter,
                   endpoints, emitted>>

\* one call of detectFramework's callback; the function bodies below the
\* imports hold no ImportSpec and are walked as one node
detectFramework ==
    /\ pc = "detect"
    /\ todo # <<>>
    /\ LET r == DetectCallback(Head(todo).n, detectedFramework,
                               isNetHttpDetected)
       IN  /\ detectedFramework' = r.df
           /\ isNetHttpDetected' = r.nh
           /\ todo' = Tail(todo)
    /\ UNCHANGED <<file, pc, adapter, endpoints, emitted, result>>

\* ast.Inspect is over: detectFramework returns its two results
detectFrameworkReturn ==
    /\ pc = "detect"
    /\ todo = <<>>
    /\ pc' = "resolve"
    /\ UNCHANGED <<file, detectedFramework, isNetHttpDetected, todo, adapter,
                   endpoints, emitted, result>>

\* the framework DetectFrameworkAndEndpoints goes on with, "" for the error
ResolvedAlwaysFallback(df, nh) == IF df = "" THEN "net/http" ELSE df
Resolved(df, nh) == IF df = "" /\ nh THEN "net/http" ELSE df

\* lines 102-108: the fallback, the error return, the dispatch of the adapter
parseForEndpoints ==
    /\ pc = "resolve"
    /\ LET fw == Resolved(detectedFramework, isNetHttpDetected)
       IN  IF fw = ""
           THEN /\ result' = [framework |-> "", endpoints |-> <<>>,
                              err |-> "no known framework detected"]
                /\ pc' = "done"
                /\ UNCHANGED <<detectedFramework, todo, adapter>>
           ELSE /\ detectedFramework' = fw
                /\ adapter' = fw
                /\ todo' = BodyNodes(file)
                /\ pc' = "extract"
                /\ result' = result
    /\ UNCHANGED <<file, isNetHttpDetected, endpoints, emitted>>

\* the switch of parseForEndpoints: the callback of the adapter of framework a
AdapterCallback(a, n) ==
    CASE a = "Gin"        -> GinCallback(n)
      [] a = "Echo"       -> EchoCallback(n)
      [] a = "GorillaMux" -> GorillaMuxCallback(n)
      [] a = "net/http"   -> NetHttpCallback(n)
      [] a = "Fiber"      -> FiberCallback(n)
      [] OTHER            -> <<>>

\* one step of the ast.Inspect of adapter a: the callback on the next node,
\* then its children (every adapter's callback returns true)
Visit(a) ==
    /\ pc = "extract"
    /\ adapter = a
    /\ todo # <<>>
    /\ LET t == Head(todo)
           e == AdapterCallback(a, t.n)
       IN  /\ endpoints' = endpoints \o e
           /\ emitted' = IF e = <<>> THEN emitted ELSE Append(emitted, t.p)
           /\ todo' = Children(t.n, t.p) \o Tail(todo)
    /\ UNCHANGED <<file, pc, detectedFramework, isNetHttpDetected, adapter,
                   result>>

parseGinEndpoints        == Visit("Gin")
parseEchoEndpoints       == Visit("Echo")
parseGorillaMuxEndpoints == Visit("GorillaMux")
parseNetHttpEndpoints    == Visit("net/http")
parseFiberEndpoints      == Visit("Fiber")

\* a return that reports an empty endpoint list as an error
ReturnErrorOnEmpty ==
    /\ pc = "extract"
    /\ todo = <<>>
    /\ result' = IF endpoints = <<>>
                 THEN [framework |-> "", endpoints |-> <<>>,
                       err |-> "no endpoints found"]
                 ELSE [framework |-> detectedFramework,
                       endpoints |-> endpoints, err |-> ""]
    /\ pc' = "done"
    /\ UNCHANGED <<file, detectedFramework, isNetHttpDetected, todo, adapter,
                   endpoints, emitted>>

\* line 109: return detectedFramework, endpoints, nil
Return ==
    /\ pc = "extract"
    /\ todo = <<>>
    /\ result' = [framework |-> detectedFramework, endpoints |-> endpoints,
                  err |-> ""]
    /\ pc' = "done"
    /\ UNCHANGED <<file, detectedFramework, isNetHttpDetected, todo, adapter,
                   endpoints, emitted>>

Next ==
    \/ ParseFile
    \/ detectFramework
    \/ detectFrameworkReturn
    \/ parseForEndpoints
    \/ parseGinEndpoints
    \/ parseEchoEndpoints
    \/ parseGorillaMuxEndpoints
    \/ parseNetHttpEndpoints
    \/ parseFiberEndpoints
    \/ Return

(* ------------------ the per-route counters (middleware) ---------------- *)
(* Package instrumentation: requestCounts and errorCounts are sync.Map     *)
(* values; every request is served on its own goroutine, which runs        *)
(* netHttpMetricsMiddleware.  Each sync.Map method is one atomic step.     *)
MaxRequests == 2                \* requests one serving goroutine handles
Handlers    == {"g1", "g2"}     \* goroutines serving requests concurrently
Paths       == {"/a", "/b"}     \* the endpoints requested
StatusOK    == 200              \* http.StatusOK
StatusError == 500
Absent      == -1               \* no entry for the key in the sync.Map

VARIABLES
    requestCounts,   \* sync.Map endpoint -> int64
    errorCounts,     \* sync.Map endpoint -> int64
    hpc,             \* where each serving goroutine is
    hpath,           \* its request's path
    hcount,          \* count, the local of the increment it is in
    hfields,         \* currentCount and errorCount it has read for its metrics
    served,          \* requests the goroutine has finished
    doneReq,         \* completed incrementEndpointRequestCount calls per path
    doneErr          \* completed incrementEndpointErrorCount calls per path

counterVars == <<requestCounts, errorCounts, hpc, hpath, hcount, hfields,
                 served, doneReq, doneErr>>

NoFields == [request_count |-> 0, error_count |-> 0]

CountersInit ==
    /\ requestCounts = [p \in Paths |-> Absent]
    /\ errorCounts = [p \in Paths |-> Absent]
    /\ hpc = [h \in Handlers |-> "idle"]
    /\ hpath = [h \in Handlers |-> "/a"]
    /\ hcount = [h \in Handlers |-> 0]
    /\ hfields = [h \in Handlers |-> NoFields]
    /\ served = [h \in Handlers |-> 0]
    /\ doneReq = [p \in Paths |-> 0]
    /\ doneErr = [p \in Paths |-> 0]

\* sync.Map.LoadOrStore: the map afterwards and the value returned
LoadOrStore(m, key, value) ==
    IF m[key] = Absent
    THEN [m |-> [m EXCEPT ![key] = value], val |-> value]
    ELSE [m |-> m, val |-> m[key]]
\* sync.Map.Store
Store(m, key, value) == [m EXCEPT ![key] = value]
\* sync.Map.Load
Load(m, key) == m[key]

getEndpointRequestCount(endpoint) ==
    IF Load(requestCounts, endpoint) = Absent THEN 0
    ELSE Load(requestCounts, endpoint)
getEndpointErrorCount(endpoint) ==
    IF Load(errorCounts, endpoint) = Absent THEN 0
    ELSE Load(errorCounts, endpoint)

\* a request for path arrives: lines 237-241
ServeRequest(h, path) ==
    /\ hpc[h] = "idle"
    /\ served[h] < MaxRequests
    /\ hpath' = [hpath EXCEPT ![h] = path]
    /\ hfields' = [hfields EXCEPT ![h] = NoFields]
    /\ hpc' = [hpc EXCEPT ![h] = "reqLoad"]
    /\ UNCHANGED <<requestCounts, errorCounts, hcount, served, doneReq,
                   doneErr>>

\* incrementEndpointRequestCount, lines 337-338: val, _ := LoadOrStore(..)
incrementEndpointRequestCountLoad(h) ==
    /\ hpc[h] = "reqLoad"
    /\ LET r == LoadOrStore(requestCounts, hpath[h], 0)
       IN  /\ requestCounts' = r.m
           /\ hcount' = [hcount EXCEPT ![h] = r.val]
    /\ hpc' = [hpc EXCEPT ![h] = "reqStore"]
    /\ UNCHANGED <<errorCounts, hpath, hfields, served, doneReq, doneErr>>

\* incrementEndpointRequestCount, line 339: Store(endpoint, count+1)
incrementEndpointRequestCountStore(h) ==
    /\ hpc[h] = "reqStore"
    /\ requestCounts' = Store(requestCounts, hpath[h], hcount[h] + 1)
    /\ doneReq' = [doneReq EXCEPT ![hpath[h]] = @ + 1]
    /\ hpc' = [hpc EXCEPT ![h] = "reqGet"]
    /\ UNCHANGED <<errorCounts, hpath, hcount, hfields, served, doneErr>>

\* lines 243-250: currentCount, then the wrapped handler and its status code
ServeHTTP(h, status) ==
    /\ hpc[h] = "reqGet"
    /\ hfields' = [hfields EXCEPT
                     ![h].request_count = getEndpointRequestCount(hpath[h])]
    /\ hpc' = [hpc EXCEPT ![h] = IF status >= 400 THEN "errLoad" ELSE "errGet"]
    /\ UNCHANGED <<requestCounts, errorCounts, hpath, hcount, served, doneReq,
                   doneErr>>

\* incrementEndpointErrorCount, lines 352-353
incrementEndpointErrorCountLoad(h) ==
    /\ hpc[h] = "errLoad"
    /\ LET r == LoadOrStore(errorCounts, hpath[h], 0)
       IN  /\ errorCounts' = r.m
           /\ hcount' = [hcount EXCEPT ![h] = r.val]
    /\ hpc' = [hpc EXCEPT ![h] = "errStore"]
    /\ UNCHANGED <<requestCounts, hpath, hfields, served, doneReq, doneErr>>

\* incrementEndpointErrorCount, line 354
incrementEndpointErrorCountStore(h) ==
    /\ hpc[h] = "errStore"
    /\ errorCounts' = Store(errorCounts, hpath[h], hcount[h] + 1)
    /\ doneErr' = [doneErr EXCEPT ![hpath[h]] = @ + 1]
    /\ hpc' = [hpc EXCEPT ![h] = "errGet"]
    /\ UNCHANGED <<requestCounts, hpath, hcount, hfields, served, doneReq>>

\* lines 255-284: errorCount, the metrics are built and handed to sendMetrics
FinishRequest(h) ==
    /\ hpc[h] = "errGet"
    /\ hfields' = [hfields EXCEPT
                     ![h].error_count = getEndpointErrorCount(hpath[h])]
    /\ served' = [served EXCEPT ![h] = @ + 1]
    /\ hpc' = [hpc EXCEPT ![h] = "idle"]
    /\ UNCHANGED <<requestCounts, errorCounts, hpath, hcount, doneReq, doneErr>>

(* --------------------- the telemetry connection ----------------------- *)
(* Package instrumentation: every middleware ends in sendMetrics, on the   *)
(* goroutine of its request.  wsConn is a package variable; the senders    *)
(* read and write it under connMutex inside ensureWebSocketConnection, the *)
(* keep-alive goroutine and the WriteMessage call use it with no lock.     *)
(* Every access of wsConn is one step.                                     *)
MaxDials == 2                   \* dials made, so connections and readers
MaxSends == 2                   \* sendMetrics calls of one goroutine
Senders  == {"s1", "s2"}        \* goroutines calling sendMetrics
Nil      == 0                   \* the nil *websocket.Conn
Conns    == 1..MaxDials         \* the connections Dial returns

VARIABLES
    wsConn,          \* the package variable: Nil or a connection
    connMutex,       \* the sender holding the mutex, "" when it is free
    spc,             \* where each sender is
    sent,            \* sendMetrics calls each sender has returned from
    dials,           \* successful dials so far
    rpc,             \* where the keep-alive goroutine of each dial is
    closed,          \* connections that were closed
    panicked         \* the method called on a nil connection, "" if none

wsVars == <<wsConn, connMutex, spc, sent, dials, rpc, closed, panicked>>

TelemetryInit ==
    /\ wsConn = Nil
    /\ connMutex = ""
    /\ spc = [s \in Senders |-> "idle"]
    /\ sent = [s \in Senders |-> 0]
    /\ dials = 0
    /\ rpc = [c \in Conns |-> "none"]
    /\ closed = {}
    /\ panicked = ""

\* line 413: connMutex.Lock()
Lock(s) ==
    /\ panicked = ""
    /\ spc[s] = "idle"
    /\ sent[s] < MaxSends
    /\ connMutex = ""
    /\ connMutex' = s
    /\ spc' = [spc EXCEPT ![s] = "check"]
    /\ UNCHANGED <<wsConn, sent, dials, rpc, closed, panicked>>

\* lines 416-418: if wsConn != nil { return nil }, the deferred Unlock runs
CheckConnected(s) ==
    /\ panicked = ""
    /\ spc[s] = "check"
    /\ IF wsConn # Nil
       THEN /\ connMutex' = ""
            /\ spc' = [spc EXCEPT ![s] = "write"]
       ELSE /\ spc' = [spc EXCEPT ![s] = "dial"]
            /\ UNCHANGED connMutex
    /\ UNCHANGED <<wsConn, sent, dials, rpc, closed, panicked>>

\* lines 421-424: wsConn, _, err = Dial(..); a failed dial returns a nil
\* connection and ensureWebSocketConnection, then sendMetrics, return the error
Dial(s, ok) ==
    /\ panicked = ""
    /\ spc[s] = "dial"
    /\ IF ok /\ dials < MaxDials
       THEN /\ wsConn' = dials + 1
            /\ dials' = dials + 1
            /\ spc' = [spc EXCEPT ![s] = "go"]
            /\ UNCHANGED <<connMutex, sent>>
       ELSE /\ wsConn' = Nil
            /\ connMutex' = ""
            /\ spc' = [spc EXCEPT ![s] = "idle"]
            /\ sent' = [sent EXCEPT ![s] = @ + 1]
            /\ UNCHANGED dials
    /\ UNCHANGED <<rpc, closed, panicked>>

\* lines 427-437: go func() {..}(); return nil, the deferred Unlock runs
StartReader(s) ==
    /\ panicked = ""
    /\ spc[s] = "go"
    /\ rpc' = [rpc EXCEPT ![dials] = "read"]
    /\ connMutex' = ""
    /\ spc' = [spc EXCEPT ![s] = "write"]
    /\ UNCHANGED <<wsConn, sent, dials, closed, panicked>>

\* lines 400-409: ensureWebSocketConnection returned nil; wsConn.WriteMessage
\* panics on a nil connection, else it succeeds or fails and sendMetrics returns
WriteMessage(s) ==
    /\ panicked = ""
    /\ spc[s] = "write"
    /\ IF wsConn = Nil
       THEN /\ panicked' = "WriteMessage"
            /\ UNCHANGED <<spc, sent>>
       ELSE /\ spc' = [spc EXCEPT ![s] = "idle"]
            /\ sent' = [sent EXCEPT ![s] = @ + 1]
            /\ UNCHANGED panicked
    /\ UNCHANGED <<wsConn, connMutex, dials, rpc, closed>>

\* line 429: wsConn.NextReader() panics on a nil connection, fails on a
\* closed one, and else returns a frame (the loop goes on) or an error
NextReader(c, ok) ==
    /\ panicked = ""
    /\ rpc[c] = "read"
    /\ IF wsConn = Nil
       THEN /\ panicked' = "NextReader"
            /\ UNCHANGED rpc
       ELSE /\ rpc' = [rpc EXCEPT
                         ![c] = IF ok /\ wsConn \notin closed THEN "read"
                                ELSE "close"]
            /\ UNCHANGED panicked
    /\ UNCHANGED <<wsConn, connMutex, spc, sent, dials, closed>>

\* line 430: wsConn.Close()
Close(c) ==
    /\ panicked = ""
    /\ rpc[c] = "close"
    /\ IF wsConn = Nil
       THEN /\ panicked' = "Close"
            /\ UNCHANGED <<rpc, closed>>
       ELSE /\ closed' = closed \cup {wsConn}
            /\ rpc' = [rpc EXCEPT ![c] = "reset"]
            /\ UNCHANGED panicked
    /\ UNCHANGED <<wsConn, connMutex, spc, sent, dials>>

\* lines 431-432: wsConn = nil; return
ResetConn(c) ==
    /\ panicked = ""
    /\ rpc[c] = "reset"
    /\ wsConn' = Nil
    /\ rpc' = [rpc EXCEPT ![c] = "done"]
    /\ UNCHANGED <<connMutex, spc, sent, dials, closed, panicked>>

(* ----------------------- the registration loop ------------------------ *)
(* Package registration: RegisterService marshals the registration data    *)
(* and runs registerWithRegistry on the caller's goroutine.  ticker.C is a *)
(* channel of capacity one: the ticker delivers a tick when the channel is *)
(* empty and drops it otherwise.                                           *)
MaxFailures == 3                \* attempts the registry lets fail
ServiceIDs  == {"svc", ""}      \* the serviceID argument
ServiceType == "api"            \* the serviceType argument

VARIABLES
    regpc,           \* where RegisterService is
    jsonData,        \* the marshalled Registration
    tickC,           \* ticks waiting in ticker.C
    ticks,           \* ticks the ticker has delivered
    attempts,        \* attempts begun
    outcomes,        \* how each finished attempt ended
    conn,            \* c of the current attempt: "none", "open" or "closed"
    response,        \* what ReadMessage returned: "", "message" or "error"
    err,             \* what registerWithRegistry returned, "" before it returns
    regResult        \* what RegisterService returned, "" before it returns

regVars == <<regpc, jsonData, tickC, ticks, attempts, outcomes, conn, response,
             err, regResult>>

\* json.Marshal of a Registration: both fields are strings, it cannot fail
Marshal(name, type) == [name |-> name, type |-> type]

RegistrationInit ==
    /\ regpc = "start"
    /\ jsonData \in {Marshal(id, ServiceType) : id \in ServiceIDs}
    /\ tickC = 0
    /\ ticks = 0
    /\ attempts = 0
    /\ outcomes = <<>>
    /\ conn = "none"
    /\ response = ""
    /\ err = ""
    /\ regResult = ""

\* lines 17-27 and 36-37: the data is marshalled, the ticker is created
RegisterService ==
    /\ regpc = "start"
    /\ regpc' = "select"
    /\ UNCHANGED <<jsonData, tickC, ticks, attempts, outcomes, conn, response,
                   err, regResult>>

\* the runtime's timer, every 30 seconds until ticker.Stop()
Tick ==
    /\ regpc \in {"select", "dial", "write", "read", "close"}
    /\ tickC = 0
    /\ tickC' = 1
    /\ ticks' = ticks + 1
    /\ UNCHANGED <<regpc, jsonData, attempts, outcomes, conn, response, err,
                   regResult>>

\* lines 40-41: select { case <-ticker.C: .. } begins an attempt
Select ==
    /\ regpc = "select"
    /\ tickC = 1
    /\ tickC' = 0
    /\ attempts' = attempts + 1
    /\ conn' = "none"
    /\ regpc' = "dial"
    /\ UNCHANGED <<jsonData, ticks, outcomes, response, err, regResult>>

\* lines 42-46: Dial; on an error the loop continues
attemptDial(ok) ==
    /\ regpc = "dial"
    /\ IF ok
       THEN /\ conn' = "open"
            /\ regpc' = "write"
            /\ UNCHANGED outcomes
       ELSE /\ Len(outcomes) < MaxFailures
            /\ outcomes' = Append(outcomes, "dial failed")
            /\ regpc' = "select"
            /\ UNCHANGED conn
    /\ UNCHANGED <<jsonData, tickC, ticks, attempts, response, err, regResult>>

\* lines 48-53: WriteMessage; on an error c.Close() and the loop continues
attemptWrite(ok) ==
    /\ regpc = "write"
    /\ IF ok
       THEN /\ regpc' = "read"
            /\ UNCHANGED <<outcomes, conn>>
       ELSE /\ Len(outcomes) < MaxFailures
            /\ conn' = "closed"
            /\ outcomes' = Append(outcomes, "write failed")
            /\ regpc' = "select"
    /\ UNCHANGED <<jsonData, tickC, ticks, attempts, response, err, regResult>>

\* lines 55-60: ReadMessage returns a message or an error once the registry
\* answers or the connection fails; no read deadline is set
attemptRead(ok) ==
    /\ regpc = "read"
    /\ response' = IF ok THEN "message" ELSE "error"
    /\ regpc' = "close"
    /\ UNCHANGED <<jsonData, tickC, ticks, attempts, outcomes, conn, err,
                   regResult>>

\* lines 61-62 and 37: c.Close(); return nil; the deferred ticker.Stop()
attemptClose ==
    /\ regpc = "close"
    /\ conn' = "closed"
    /\ outcomes' = Append(outcomes, "registered")
    /\ err' = "nil"
    /\ regpc' = "return"
    /\ UNCHANGED <<jsonData, tickC, ticks, attempts, response, regResult>>

\* lines 27-32: RegisterService wraps a non-nil error, else returns nil
RegisterServiceReturn ==
    /\ regpc = "return"
    /\ regResult' = IF err # "nil" THEN "registration failed" ELSE "nil"
    /\ regpc' = "done"
    /\ UNCHANGED <<jsonData, tickC, ticks, attempts, outcomes, conn, response,
                   err>>

(* ------------------------- the specifications ------------------------- *)
(* The four parts of the module share no state: each specification runs    *)
(* one of them and leaves the others in their initial state.               *)
allvars == <<vars, counterVars, wsVars, regVars>>

\* the discovery engine has not been given a file
ParserIdle == file = File(FALSE, <<>>, <<>>) /\ Init
\* RegisterService has not been called
RegistrationIdle == jsonData = Marshal("svc", ServiceType) /\ RegistrationInit

\* the discovery engine alone: Next, and nothing else runs
EngineInit == Init /\ CountersInit /\ TelemetryInit /\ RegistrationIdle
EngineNext ==
    \/ ParseFile /\ UNCHANGED <<counterVars, wsVars, regVars>>
    \/ detectFramework /\ UNCHANGED <<counterVars, wsVars, regVars>>
    \/ detectFrameworkReturn /\ UNCHANGED <<counterVars, wsVars, regVars>>
    \/ parseForEndpoints /\ UNCHANGED <<counterVars, wsVars, regVars>>
    \/ parseGinEndpoints /\ UNCHANGED <<counterVars, wsVars, regVars>>
    \/ parseEchoEndpoints /\ UNCHANGED <<counterVars, wsVars, regVars>>
    \/ parseGorillaMuxEndpoints /\ UNCHANGED <<counterVars, wsVars, regVars>>
    \/ parseNetHttpEndpoints /\ UNCHANGED <<counterVars, wsVars, regVars>>
    \/ parseFiberEndpoints /\ UNCHANGED <<counterVars, wsVars, regVars>>
    \/ Return /\ UNCHANGED <<counterVars, wsVars, regVars>>
Spec == EngineInit /\ [][EngineNext]_allvars

\* the request-serving goroutines alone
CountersSpecInit ==
    ParserIdle /\ CountersInit /\ TelemetryInit /\ RegistrationIdle
\* netHttpMetricsMiddleware, lines 236-285, on every serving goroutine
CountersNext ==
    \E h \in Handlers :
        \/ \E path \in Paths :
               ServeRequest(h, path) /\ UNCHANGED <<vars, wsVars, regVars>>
        \/ incrementEndpointRequestCountLoad(h) /\ UNCHANGED <<vars, wsVars, regVars>>
        \/ incrementEndpointRequestCountStore(h) /\ UNCHANGED <<vars, wsVars, regVars>>
        \/ \E status \in {StatusOK, StatusError} :
               ServeHTTP(h, status) /\ UNCHANGED <<vars, wsVars, regVars>>
        \/ incrementEndpointErrorCountLoad(h) /\ UNCHANGED <<vars, wsVars, regVars>>
        \/ incrementEndpointErrorCountStore(h) /\ UNCHANGED <<vars, wsVars, regVars>>
        \/ FinishRequest(h) /\ UNCHANGED <<vars, wsVars, regVars>>
SpecCounters == CountersSpecInit /\ [][CountersNext]_allvars

\* the senders and the keep-alive goroutines alone
TelemetrySpecInit ==
    ParserIdle /\ CountersInit /\ TelemetryInit /\ RegistrationIdle
\* sendMetrics, lines 395-410, on every sender
sendMetrics(s) ==
    \/ Lock(s) /\ UNCHANGED <<vars, counterVars, regVars>>
    \/ CheckConnected(s) /\ UNCHANGED <<vars, counterVars, regVars>>
    \/ \E ok \in BOOLEAN : Dial(s, ok) /\ UNCHANGED <<vars, counterVars, regVars>>
    \/ StartReader(s) /\ UNCHANGED <<vars, counterVars, regVars>>
    \/ WriteMessage(s) /\ UNCHANGED <<vars, counterVars, regVars>>
\* the goroutine of lines 427-435
keepAlive(c) ==
    \/ \E ok \in BOOLEAN : NextReader(c, ok) /\ UNCHANGED <<vars, counterVars, regVars>>
    \/ Close(c) /\ UNCHANGED <<vars, counterVars, regVars>>
    \/ ResetConn(c) /\ UNCHANGED <<vars, counterVars, regVars>>
TelemetryNext ==
    \/ \E s \in Senders : sendMetrics(s)
    \/ \E c \in Conns : keepAlive(c)
SpecTelemetry == TelemetrySpecInit /\ [][TelemetryNext]_allvars

\* RegisterService alone
RegistrationSpecInit ==
    ParserIdle /\ CountersInit /\ TelemetryInit /\ RegistrationInit
notRegistration == <<vars, counterVars, wsVars>>
RegistrationNext ==
    \/ RegisterService /\ UNCHANGED notRegistration
    \/ Tick /\ UNCHANGED notRegistration
    \/ Select /\ UNCHANGED notRegistration
    \/ \E ok \in BOOLEAN : attemptDial(ok) /\ UNCHANGED notRegistration
    \/ \E ok \in BOOLEAN : attemptWrite(ok) /\ UNCHANGED notRegistration
    \/ \E ok \in BOOLEAN : attemptRead(ok) /\ UNCHANGED notRegistration
    \/ attemptClose /\ UNCHANGED notRegistration
    \/ RegisterServiceReturn /\ UNCHANGED notRegistration
\* The goroutine is scheduled and the timer fires; Dial ends within the
\* dialer's handshake timeout and WriteMessage of one small frame ends.
\* ReadMessage has no deadline: it returns only if the registry answers or
\* the connection fails, so nothing makes attemptRead happen.
RegistrationFairness ==
    /\ WF_allvars(RegisterService /\ UNCHANGED notRegistration)
    /\ WF_allvars(Tick /\ UNCHANGED notRegistration)
    /\ WF_allvars(Select /\ UNCHANGED notRegistration)
    /\ WF_allvars(\E ok \in BOOLEAN : attemptDial(ok) /\ UNCHANGED notRegistration)
    /\ WF_allvars(\E ok \in BOOLEAN : attemptWrite(ok) /\ UNCHANGED notRegistration)
    /\ WF_allvars(attemptClose /\ UNCHANGED notRegistration)
    /\ WF_allvars(RegisterServiceReturn /\ UNCHANGED notRegistration)
SpecRegistration ==
    RegistrationSpecInit /\ [][RegistrationNext]_allvars /\ RegistrationFairness

TypeOK ==
    /\ pc \in {"parse", "detect", "resolve", "extract", "done"}
    /\ isNetHttpDetected \in BOOLEAN
    /\ Len(emitted) = Len(endpoints)

(* ------------------- vocabulary of the properties --------------------- *)
Range(q) == {q[i] : i \in DOMAIN q}

\* the framework an import declaration names, "" when it names none
FrameworkOf(imp) ==
    LET m == {sig \in DOMAIN frameworkSignatures : imp.Path.Value = Quoted(sig)}
    IN  IF m = {} THEN "" ELSE frameworkSignatures[CHOOSE sig \in m : TRUE]

IsConcrete(imp) == FrameworkOf(imp) \notin {"", "net/http"}

\* the concrete frameworks a file imports, in document order
ConcreteSeq(f) ==
    LET c == SelectSeq(f.Imports, IsConcrete)
    IN  [i \in 1..Len(c) |-> FrameworkOf(c[i])]

ImportsNetHttp(f) == \E i \in Range(f.Imports) : FrameworkOf(i) = "net/http"

\* every call expression below node n, with its path
RECURSIVE CallsIn(_, _)
CallsIn(n, p) ==
    (IF n.kind = "CallExpr" THEN {[n |-> n, p |-> p]} ELSE {}) \cup
    UNION {CallsIn(ch.n, ch.p) : ch \in Range(Children(n, p))}

FileCalls(f) == UNION {CallsIn(f.Body[i], <<i>>) : i \in 1..Len(f.Body)}

\* the paths of the calls below n in the order of their opening parentheses
\* in the source text: the receiver of a call is written before its "(",
\* its arguments after it
RECURSIVE FlatMap(_, _)
FlatMap(Op(_), q) ==
    IF q = <<>> THEN <<>> ELSE Op(Head(q)) \o FlatMap(Op, Tail(q))

RECURSIVE TextOrder(_, _)
TextOrder(n, p) ==
    LET sub(ch) == TextOrder(ch.n, ch.p)
        kids    == Children(n, p)
    IN  IF n.kind = "CallExpr"
        THEN sub(kids[1]) \o <<p>> \o FlatMap(sub, Tail(kids))
        ELSE FlatMap(sub, kids)

FileTextOrder(f) ==
    LET stmt(i) == TextOrder(f.Body[i], <<i>>)
    IN  FlatMap(stmt, [i \in 1..Len(f.Body) |-> i])

PosIn(q, x) == CHOOSE i \in 1..Len(q) : q[i] = x

\* how many endpoints the call at path p produced
Produced(p) == Cardinality({k \in 1..Len(emitted) : emitted[k] = p})
\* the endpoint the call at path p produced
EndpointOf(p) == result.endpoints[PosIn(emitted, p)]

Succeeded == pc = "done" /\ result.err = ""
Failed    == pc = "done" /\ result.err # ""

IsMember(c)    == c.n.Fun.kind = "SelectorExpr"
MemberName(c)  == c.n.Fun.Sel.Name
IsStringLit(e) == e.kind = "BasicLit" /\ e.Kind = "STRING"
IsIdent(e)     == e.kind = "Ident"
IsTwoPart(e)   == e.kind = "SelectorExpr" /\ e.X.kind = "Ident"

\* the member names the adapter of framework fw treats as registrations
Recognized(fw, name) ==
    CASE fw = "Gin"        -> isGinHTTPMethod(name)
      [] fw = "Echo"       -> isEchoHTTPMethod(name)
      [] fw = "GorillaMux" -> name = HandleFuncName
      [] fw = "net/http"   -> name \in {HandleFuncName, HandleName}
      [] fw = "Fiber"      -> isFiberHTTPMethod(name)
      [] OTHER             -> FALSE

\* a candidate registration of the selected adapter with at least two arguments
Candidate(c) ==
    IsMember(c) /\ Recognized(adapter, MemberName(c)) /\ Len(c.n.Args) >= 2

\* a call with a plain pattern and a plain handler: "/a" or "/b", and h
PlainArgs(c) ==
    Len(c.n.Args) >= 2 /\ c.n.Args[1] \in {LitA, LitB} /\ c.n.Args[2] = IdentH

(* ----------------------------- the claims ----------------------------- *)

\* C1: a file that imports concrete framework A and later a different
\* concrete framework B is reported as framework A (first match wins).
C1_FirstMatchWins ==
    (pc = "done" /\ ~file.ParseErr /\ Cardinality(Range(ConcreteSeq(file))) >= 2)
        => result.framework = ConcreteSeq(file)[1]

\* C2: a file importing "net/http" and no concrete framework is detected as
\* "net/http"; one importing "net/http" and exactly one concrete framework is
\* detected as that framework, whichever import comes first.
C2_FallbackNonPreemption ==
    (pc = "done" /\ ~file.ParseErr /\ ImportsNetHttp(file)) =>
        LET cs == Range(ConcreteSeq(file))
        IN  /\ cs = {} => (result.err = "" /\ result.framework = "net/http")
            /\ Cardinality(cs) = 1 =>
                   (result.err = "" /\ result.framework \in cs)

C2_Witness ==
    /\ pc = "done"
    /\ Len(file.Imports) = 2
    /\ FrameworkOf(file.Imports[1]) = "net/http"
    /\ IsConcrete(file.Imports[2])
    /\ result.framework = FrameworkOf(file.Imports[2])

\* C3: when an error is returned the framework is "" and the endpoint list
\* is empty and no adapter has run; a parseable file with no recognized
\* import returns "no known framework detected" whatever calls it contains.
C3_NoPartialResult ==
    /\ Failed => /\ result.framework = ""
                 /\ result.endpoints = <<>>
                 /\ adapter = "" /\ endpoints = <<>> /\ emitted = <<>>
    /\ (pc = "done" /\ ~file.ParseErr
          /\ \A i \in Range(file.Imports) : FrameworkOf(i) = "")
        => result.err = "no known framework detected"

C3_Witness ==
    /\ pc = "done"
    /\ ~file.ParseErr
    /\ file.Imports # <<>>
    /\ \A i \in Range(file.Imports) : FrameworkOf(i) = ""
    /\ \E c \in FileCalls(file) : IsMember(c) /\ PlainArgs(c)
    /\ result = [framework |-> "", endpoints |-> <<>>,
                 err |-> "no known framework detected"]

\* C4: the endpoints are in document order: if the call that produced one
\* endpoint is written before the call that produced another, the first
\* endpoint precedes the second, also when one call is the receiver of the
\* other as in r.GET("/a", h1).GET("/b", h2).
C4_DocumentOrder ==
    Succeeded =>
        \A i, j \in 1..Len(emitted) :
            i < j => PosIn(FileTextOrder(file), emitted[i])
                       < PosIn(FileTextOrder(file), emitted[j])

\* C5: a candidate whose second argument is a bare identifier produces
\* exactly one endpoint when its first argument is a string literal, the
\* empty literal and raw literals included, and none when it is not.
C5_LiteralOnly ==
    Succeeded =>
        \A c \in FileCalls(file) :
            (Candidate(c) /\ IsIdent(c.n.Args[2])) =>
                Produced(c.p) = IF IsStringLit(c.n.Args[1]) THEN 1 ELSE 0

\* C6: a candidate produces an endpoint only when its second argument is a
\* bare identifier (the handler is its name) or receiver.member with a bare
\* identifier as receiver (the handler is the text receiver.member).
C6_HandlerShape ==
    Succeeded =>
        \A c \in FileCalls(file) :
            (Candidate(c) /\ Produced(c.p) > 0) =>
                LET h == c.n.Args[2]
                IN  \/ IsIdent(h) /\ EndpointOf(c.p).Handler = h.Name
                    \/ IsTwoPart(h) /\ EndpointOf(c.p).Handler =
                                          h.X.Name \o <<".">> \o h.Sel.Name

\* the method values each adapter may report
MethodSet(fw) ==
    CASE fw \in {"Gin", "Echo", "Fiber"} -> GinVerbs
      [] fw = "GorillaMux"               -> {CUSTOM}
      [] fw = "net/http"                 -> {ALL, CUSTOM}

\* C7: in a successful result every endpoint comes from the adapter of the
\* returned framework: its method is in that adapter's method set and the
\* call that produced it has a member name that adapter recognizes.
C7_AdapterConsistency ==
    Succeeded =>
        /\ adapter = result.framework
        /\ \A k \in 1..Len(result.endpoints) :
               result.endpoints[k].Method \in MethodSet(result.framework)
        /\ \A c \in FileCalls(file) :
               Produced(c.p) > 0 =>
                   IsMember(c) /\ Recognized(result.framework, MemberName(c))

\* C8: the Fiber adapter recognizes a member name whose lower-cased form is
\* one of get, post, put, delete, patch, options and reports the name
\* upper-cased (Get and get both give "GET"); the Gin and Echo adapters
\* recognize only the exact upper-case spellings and report them verbatim,
\* so r.get and r.Get yield nothing there.
C8_CaseRules ==
    Succeeded =>
        \A c \in FileCalls(file) :
            (IsMember(c) /\ PlainArgs(c)) =>
                LET name == MemberName(c)
                IN  /\ adapter = "Fiber" =>
                         /\ Produced(c.p) =
                              IF ToLower(name) \in FiberVerbs THEN 1 ELSE 0
                         /\ Produced(c.p) = 1 =>
                              EndpointOf(c.p).Method = ToUpper(name)
                         /\ name \in {GET, GetName, getName} =>
                              /\ Produced(c.p) = 1
                              /\ EndpointOf(c.p).Method = GET
                    /\ adapter \in {"Gin", "Echo"} =>
                         /\ Produced(c.p) = IF name \in GinVerbs THEN 1 ELSE 0
                         /\ Produced(c.p) = 1 => EndpointOf(c.p).Method = name
                         /\ name \in {GetName, getName} => Produced(c.p) = 0

C8_Witness ==
    /\ Succeeded
    /\ adapter = "Fiber"
    /\ \E c \in FileCalls(file) :
          /\ IsMember(c) /\ PlainArgs(c) /\ MemberName(c) = getName
          /\ Produced(c.p) = 1
          /\ EndpointOf(c.p).Method = GET

\* C9: under net/http an accepted Handle call yields method "CUSTOM" and an
\* accepted HandleFunc call yields "ALL"; under GorillaMux only HandleFunc
\* registers, always with method "CUSTOM", and Handle calls yield nothing.
C9_BaseHttpMethods ==
    Succeeded =>
        \A c \in FileCalls(file) :
            /\ (adapter = "net/http" /\ Produced(c.p) > 0) =>
                   /\ MemberName(c) = HandleName =>
                          EndpointOf(c.p).Method = CUSTOM
                   /\ MemberName(c) = HandleFuncName =>
                          EndpointOf(c.p).Method = ALL
                   /\ MemberName(c) \in {HandleName, HandleFuncName}
            /\ (adapter = "net/http" /\ IsMember(c) /\ PlainArgs(c)
                  /\ MemberName(c) \in {HandleName, HandleFuncName}) =>
                   Produced(c.p) = 1
            /\ (adapter = "GorillaMux" /\ Produced(c.p) > 0) =>
                   /\ MemberName(c) = HandleFuncName
                   /\ EndpointOf(c.p).Method = CUSTOM
            /\ (adapter = "GorillaMux" /\ IsMember(c) /\ PlainArgs(c)) =>
                   Produced(c.p) =
                       IF MemberName(c) = HandleFuncName THEN 1 ELSE 0

C9_Witness ==
    /\ Succeeded
    /\ result.framework = "net/http"
    /\ \E c, d \in FileCalls(file) :
          /\ IsMember(c) /\ MemberName(c) = HandleName
          /\ IsMember(d) /\ MemberName(d) = HandleFuncName
          /\ Produced(c.p) = 1 /\ EndpointOf(c.p).Method = CUSTOM
          /\ Produced(d.p) = 1 /\ EndpointOf(d.p).Method = ALL

\* C10: a call with fewer than two arguments never yields an endpoint and
\* never causes an error, and the calls after it are still extracted.
C10_ArityFloor ==
    (pc = "done" /\ adapter # "") =>
        /\ result.err = ""
        /\ \A c \in FileCalls(file) :
               /\ Len(c.n.Args) < 2 => Produced(c.p) = 0
               /\ (IsMember(c) /\ Recognized(adapter, MemberName(c))
                     /\ PlainArgs(c)) => Produced(c.p) = 1

C10_Witness ==
    /\ Succeeded
    /\ \E c, d \in FileCalls(file) :
          /\ IsMember(c) /\ Recognized(adapter, MemberName(c))
          /\ Len(c.n.Args) = 1 /\ IsStringLit(c.n.Args[1])
          /\ Produced(c.p) = 0
          /\ c.p[1] < d.p[1]
          /\ Produced(d.p) = 1

\* C11: a parseable file that resolves to a known framework and has no
\* accepted registration call returns that framework, an empty endpoint list
\* and no error; an empty list comes with an error only when parsing or
\* detection failed.
C11_EmptyButValid ==
    pc = "done" =>
        LET known == {FrameworkOf(i) : i \in Range(file.Imports)} \ {""}
        IN  /\ (~file.ParseErr /\ known # {} /\ emitted = <<>>) =>
                   /\ result.err = ""
                   /\ result.endpoints = <<>>
                   /\ result.framework \in known
            /\ (result.endpoints = <<>> /\ result.err # "") =>
                   (file.ParseErr \/ known = {})

C11_Witness ==
    /\ Succeeded
    /\ result.framework # ""
    /\ result.endpoints = <<>>
    /\ \E c \in FileCalls(file) : IsMember(c) /\ PlainArgs(c)

(* --------------------------- the counters ----------------------------- *)
\* goroutines inside incrementEndpointRequestCount(path)
InRequestIncrement(path) ==
    {h \in Handlers : hpath[h] = path /\ hpc[h] = "reqStore"}
\* goroutines inside incrementEndpointErrorCount(path)
InErrorIncrement(path) ==
    {h \in Handlers : hpath[h] = path /\ hpc[h] = "errStore"}

\* each counter holds the number of completed increments whenever no
\* increment of it is under way, and never less than that number
NoIncrementLost ==
    \A path \in Paths :
        /\ getEndpointRequestCount(path) >= doneReq[path]
        /\ InRequestIncrement(path) = {} =>
               getEndpointRequestCount(path) = doneReq[path]
        /\ getEndpointErrorCount(path) >= doneErr[path]
        /\ InErrorIncrement(path) = {} =>
               getEndpointErrorCount(path) = doneErr[path]

\* no step lowers what a getter returns
NeverDecreases ==
    \A path \in Paths :
        /\ getEndpointRequestCount(path)' >= getEndpointRequestCount(path)
        /\ getEndpointErrorCount(path)' >= getEndpointErrorCount(path)

\* C12: under every interleaving of the serving goroutines, once N calls of
\* incrementEndpointRequestCount(path) have completed getEndpointRequestCount(path)
\* returns N and the value it returns never decreases, and likewise for
\* incrementEndpointErrorCount and getEndpointErrorCount.
C12_NoLostIncrement == [](NoIncrementLost) /\ [][NeverDecreases]_allvars

(* ---------------------- the telemetry connection ---------------------- *)
\* C13: under every interleaving of the senders with the keep-alive
\* goroutines, the WriteMessage that follows a nil return of
\* ensureWebSocketConnection is performed on a non-nil wsConn, and no
\* keep-alive goroutine calls NextReader or Close on a nil wsConn.
C13_ConnectionValidity ==
    /\ \A s \in Senders : spc[s] = "write" => wsConn # Nil
    /\ panicked \notin {"WriteMessage", "NextReader", "Close"}

(* ------------------------ the registration loop ----------------------- *)
Failures == {"dial failed", "write failed"}
Returned == regpc \in {"return", "done"}

\* one attempt per delivered tick, and none before the first
OneAttemptPerTick == attempts + tickC = ticks

\* an attempt that failed left no open connection and did not return
FailedAttemptRetries ==
    (outcomes # <<>> /\ outcomes[Len(outcomes)] \in Failures) =>
        /\ ~Returned
        /\ regpc = "select" => conn # "open"
        /\ outcomes[Len(outcomes)] = "write failed" /\ regpc = "select" =>
               conn = "closed"

\* a return follows an attempt whose dial and write succeeded, every earlier
\* attempt failed, the connection is closed and the error is nil
ReturnsOnlyRegistered ==
    /\ Returned =>
           /\ outcomes # <<>>
           /\ outcomes[Len(outcomes)] = "registered"
           /\ \A i \in 1..(Len(outcomes) - 1) : outcomes[i] \in Failures
           /\ conn = "closed"
           /\ response \in {"message", "error"}
           /\ err = "nil"
    /\ ~Returned => \A i \in DOMAIN outcomes : outcomes[i] \in Failures
    /\ regResult \in {"", "nil"}
    /\ regpc = "done" <=> regResult = "nil"

\* C14: registerWithRegistry makes one attempt per tick and none before the
\* first; a failed dial or write (the connection then closed) is followed by a
\* retry on a later tick; it returns only after an attempt whose dial and
\* write succeeded, with nil and the connection closed whatever the read
\* gave, and never a non-nil error; so once an attempt has dialled and
\* written RegisterService eventually returns nil, and while every attempt
\* fails it does not return.
C14_RetryLoop ==
    /\ [](OneAttemptPerTick /\ FailedAttemptRetries /\ ReturnsOnlyRegistered)
    /\ (regpc = "select") ~> (regpc = "dial")
    /\ (regpc = "read") ~> (regResult = "nil")

====
